---- MODULE Spec2Model ----
(***************************************************************************)
(* State-machine model of the popup controller YouTubeQuizGenerator       *)
(* (src/unnamed/part_000).  One action per event handler or asynchronous  *)
(* continuation.  An async method is split at its single await point: the *)
(* part up to the await is the handler action, the part after it (try /   *)
(* catch / finally) is the completion action of the request it issued.    *)
(*                                                                         *)
(* Indices: JavaScript question and option indices are 0-based; the model *)
(* uses index+1 (questions 1..n, options 1..NumOptions).                  *)
(***************************************************************************)
EXTENDS Integers, Sequences, FiniteSets, Bags, TLC

\* ---------------------------------------------------------------- bounds
MaxQuestions == 2   \* questions in a quiz returned by the backend
NumOptions   == 3   \* options of every question
MaxInFlight  == 2   \* main backend requests in flight at once
MaxChatReqs  == 2   \* /chat requests in flight at once
MaxPairs     == 2   \* (user, bot) pairs kept in the chat transcript
MaxTimers    == 2   \* auto-hide timers pending at once
MaxParams    == 2   \* parameters in the query string of a URL
MaxTitleLen  == 6   \* pieces of a tab title

\* ---------------------------------------------------------------- domains
Panels    == {"quiz", "summary", "topics", "chat"}
MainBtns  == {"generateQuizBtn", "generateSummaryBtn", "extractTopicsBtn", "startChatBtn"}
Devices   == {"pointer", "keyboard"}
Opts      == 1..NumOptions
Null      == "null"
ChatTexts == {"q1", "q2"}
Answers   == {"a1"}
Placeholder == ""
ErrorText == "Sorry, I encountered an error"
TabKinds  == {"noTab", "notVideoPage", "emptyVideoId", "video", "queryThrows"}
Outcomes  == {"ok", "malformed", "httpError", "transport"}

\* A URL string, by the parts `new URL` makes of it.  scheme "" is a string
\* without a scheme, which `new URL` rejects; query is the sequence of
\* <<name, value>> pairs of the query string.
Schemes   == {"https", ""}
Hosts     == {"www.youtube.com", "WWW.YouTube.com", "youtube.com", "m.youtube.com"}
Paths     == {"/watch", "/watch/", "/Watch", "/"}
Params    == {<<"v", "vid">>, <<"v", "">>, <<"t", "1">>}
Queries   == UNION {[1..n -> Params] : n \in 0..MaxParams}
NoUrl     == [scheme |-> "", host |-> "", path |-> "", query |-> <<>>]  \* url is '' or undefined
Urls      == [scheme : Schemes, host : Hosts, path : Paths, query : Queries] \cup {NoUrl}

\* A tab title, as a sequence of pieces: a letter, a blank, a hyphen, and the
\* word YouTube.
TitlePieces == {"a", " ", "-", "YouTube"}
Titles      == UNION {[1..n -> TitlePieces] : n \in 0..MaxTitleLen}

\* No method evaluated on its own / not returned yet.
NoArg == "none"
NoRet == <<>>

\* A well-formed quiz body: the correct_answer of each of its questions.
Quizzes == UNION {[1..n -> Opts] : n \in 1..MaxQuestions}

\* this.quizData: null, a response body without a questions array, or a quiz
NoQuiz    == [kind |-> "null", questions |-> <<>>]
Malformed == [kind |-> "malformed", questions |-> <<>>]
Quiz(qz)  == [kind |-> "quiz", questions |-> qz]

\* this.userAnswers = {}
EmptyAnswers == [q \in {} |-> 0]

VARIABLES
    loadPc,             \* loadVideoInfo: "awaitTab" until chrome.tabs.query settles, then "done"
    currentVideo,       \* this.currentVideo: Null or a video id
    actionBtnsDisabled, \* .action-btn .disabled (disableControls)
    quizData,           \* this.quizData: NoQuiz, Malformed or Quiz(qz)
    userAnswers,        \* this.userAnswers: question index -> option index
    domQuestions,       \* the .question elements of #quizContent, with the classes of their options
    submitHidden,       \* #submitQuizBtn style.display = 'none'
    visible,            \* style.display = 'block' of the four sections
    results,            \* style.display = 'block' of #results
    loading,            \* #loading shown and .controls pointer-events: none
    errorVisible,       \* #errorMessage shown
    successVisible,     \* #successMessage shown
    errTimers,          \* pending setTimeout callbacks hiding #errorMessage
    succTimers,         \* pending setTimeout callbacks hiding #successMessage
    inflight,           \* main requests awaiting their response (a bag: they settle in any order)
    chatMessages,       \* children of #chatMessages, in document order
    chatInputDisabled,  \* #chatInput .disabled
    sendBtnDisabled,    \* #sendChatBtn .disabled
    chatReqs,           \* /chat requests awaiting their response
    lastEvent,          \* history: the handler or continuation that ran last
    arg,                \* the argument of the helper method evaluated on its own
    ret                 \* <<v>> once that method has returned v, <<>> before

vars == <<loadPc, currentVideo, actionBtnsDisabled, quizData, userAnswers, domQuestions,
          submitHidden, visible, results, loading, errorVisible, successVisible,
          errTimers, succTimers, inflight, chatMessages, chatInputDisabled,
          sendBtnDisabled, chatReqs, lastEvent, arg, ret>>

quizVars  == <<quizData, userAnswers, domQuestions, submitHidden>>
panelVars == <<visible, results>>
noteVars  == <<errorVisible, successVisible, errTimers, succTimers>>
chatVars  == <<chatMessages, chatInputDisabled, sendBtnDisabled, chatReqs>>
videoVars == <<loadPc, currentVideo, actionBtnsDisabled>>
pureVars  == <<arg, ret>>

\* ---------------------------------------------------------------- helpers
PendingTimers == errTimers + succTimers

\* A notification can be raised within the timer bound.
TimerRoom == PendingTimers < MaxTimers

\* showError that leaves the success notification as it is
showErrorKeepsSuccess ==
    /\ errorVisible' = TRUE
    /\ errTimers' = errTimers + 1
    /\ UNCHANGED <<successVisible, succTimers>>

\* showError(message)
showError ==
    /\ errorVisible' = TRUE
    /\ successVisible' = FALSE
    /\ errTimers' = errTimers + 1
    /\ UNCHANGED succTimers

\* showSuccess that cancels the timers of earlier success notifications
showSuccessCancelsEarlier ==
    /\ successVisible' = TRUE
    /\ errorVisible' = FALSE
    /\ succTimers' = 1
    /\ UNCHANGED errTimers

\* showSuccess(message)
showSuccess ==
    /\ successVisible' = TRUE
    /\ errorVisible' = FALSE
    /\ succTimers' = succTimers + 1
    /\ UNCHANGED errTimers

\* showLoading(show)
showLoading(show) == loading' = show

\* new URL(url) throws on a string without a scheme
UrlParses(url) == url.scheme # ""

\* urlObj.hostname: the URL parser lower-cases the host
hostname(url) == IF url.host = "WWW.YouTube.com" THEN "www.youtube.com" ELSE url.host

\* urlObj.pathname: the path as written
pathname(url) == url.path

\* urlObj.searchParams.has(name)
searchParamsHas(url, name) == \E i \in 1..Len(url.query) : url.query[i][1] = name

\* urlObj.searchParams.get(name): the value of the first pair with that name
searchParamsGet(url, name) ==
    IF searchParamsHas(url, name)
      THEN LET first == CHOOSE i \in 1..Len(url.query) :
                           /\ url.query[i][1] = name
                           /\ \A j \in 1..(i - 1) : url.query[j][1] # name
           IN  url.query[first][2]
      ELSE Null

\* isYouTubeVideoPage without the test of the path
isYouTubeVideoPageAnyPath(url) ==
    IF url = NoUrl THEN FALSE
    ELSE IF ~UrlParses(url) THEN FALSE
    ELSE hostname(url) = "www.youtube.com" /\ searchParamsHas(url, "v")

\* isYouTubeVideoPage(url)
isYouTubeVideoPage(url) ==
    IF url = NoUrl THEN FALSE
    ELSE IF ~UrlParses(url) THEN FALSE
    ELSE /\ hostname(url) = "www.youtube.com"
         /\ pathname(url) = "/watch"
         /\ searchParamsHas(url, "v")

\* extractVideoInfo(url, title), by the videoId of the object it returns:
\* Null when new URL throws or searchParams.get('v') is null or empty
extractVideoInfo(url) ==
    IF ~UrlParses(url) THEN Null
    ELSE IF searchParamsGet(url, "v") \in {Null, ""} THEN Null
    ELSE searchParamsGet(url, "v")

\* The URL of the active tab for each kind of tab loadVideoInfo can meet
\* (no URL is read when there is no tab or the query throws).
TabUrl(tab) ==
    CASE tab = "video"        -> [scheme |-> "https", host |-> "www.youtube.com",
                                  path |-> "/watch", query |-> << <<"v", "vid">> >>]
      [] tab = "emptyVideoId" -> [scheme |-> "https", host |-> "www.youtube.com",
                                  path |-> "/watch", query |-> << <<"v", "">> >>]
      [] tab = "notVideoPage" -> [scheme |-> "https", host |-> "www.youtube.com",
                                  path |-> "/", query |-> <<>>]
      [] OTHER                -> NoUrl

\* Blanks (\s) at the end of a title removed
RECURSIVE DropTrailingBlanks(_)
DropTrailingBlanks(t) ==
    IF Len(t) > 0 /\ t[Len(t)] = " "
      THEN DropTrailingBlanks(SubSeq(t, 1, Len(t) - 1))
      ELSE t

\* title.replace(/\s*-\s*YouTube$/, ''): the leftmost match that reaches the
\* end of the title (the blanks before the hyphen included) is removed
cleanTitle(title) ==
    IF Len(title) = 0 \/ title[Len(title)] # "YouTube" THEN title
    ELSE LET beforeWord == DropTrailingBlanks(SubSeq(title, 1, Len(title) - 1)) IN
         IF Len(beforeWord) = 0 \/ beforeWord[Len(beforeWord)] # "-" THEN title
         ELSE DropTrailingBlanks(SubSeq(beforeWord, 1, Len(beforeWord) - 1))


\* Section ids made visible / hidden by the four display operations.
\* displayQuiz, lines 268-275
showQuizSection == [quiz |-> TRUE, summary |-> FALSE, topics |-> FALSE, chat |-> FALSE]
\* displaySummary that leaves the quiz section as it is
showSummarySectionKeepsQuiz ==
    [quiz |-> visible.quiz, summary |-> TRUE, topics |-> FALSE, chat |-> FALSE]

\* displaySummary, lines 354-361
showSummarySection == [quiz |-> FALSE, summary |-> TRUE, topics |-> FALSE, chat |-> FALSE]
\* displayTopics, lines 401-408
showTopicsSection == [quiz |-> FALSE, summary |-> FALSE, topics |-> TRUE, chat |-> FALSE]
\* startChat, lines 423-430
showChatSection == [quiz |-> FALSE, summary |-> FALSE, topics |-> FALSE, chat |-> TRUE]

\* The option elements displayQuiz builds for one question: no class set,
\* pointer events enabled.
FreshQuestion == [selected |-> {}, correct |-> {}, incorrect |-> {}, inert |-> {}]

\* displayQuiz(quizData) for a well-formed body
displayQuiz(qz) ==
    /\ userAnswers' = EmptyAnswers
    /\ domQuestions' = [i \in 1..Len(qz) |-> FreshQuestion]
    /\ results' = TRUE
    /\ visible' = showQuizSection

\* displayQuiz(quizData) for a body without a questions array: the content
\* and the answers are reset, then quizData.questions.forEach throws.
displayQuizThrows ==
    /\ userAnswers' = EmptyAnswers
    /\ domQuestions' = <<>>
    /\ UNCHANGED panelVars

\* Grading that marks the chosen option incorrect even when it is the correct one
GradeQuestionMarksChosen(el, c, i) ==
    [el EXCEPT
        !.inert = Opts,
        !.correct = el.correct \cup {o \in Opts : o = c},
        !.incorrect = el.incorrect \cup
            {o \in Opts : i \in DOMAIN userAnswers /\ o = userAnswers[i]}]

\* Grading that leaves the options clickable
GradeQuestionStaysOpen(el, c, i) ==
    [el EXCEPT
        !.correct = el.correct \cup {o \in Opts : o = c},
        !.incorrect = el.incorrect \cup
            {o \in Opts : /\ o # c
                          /\ i \in DOMAIN userAnswers
                          /\ o = userAnswers[i]
                          /\ userAnswers[i] # c}]

\* The classes of one question's options after displayQuizResults, for the
\* correct index c and the stored answer of question i (if any).
GradeQuestion(el, c, i) ==
    [el EXCEPT
        !.inert = Opts,
        !.correct = el.correct \cup {o \in Opts : o = c},
        !.incorrect = el.incorrect \cup
            {o \in Opts : /\ o # c
                          /\ i \in DOMAIN userAnswers
                          /\ o = userAnswers[i]
                          /\ userAnswers[i] # c}]

\* displayQuizResults reads this.quizData.questions[index] for every .question
\* element; it throws when that array is missing.
displayQuizResultsThrows == Len(domQuestions) > 0 /\ quizData.kind # "quiz"

\* displayQuizResults(results)
displayQuizResults ==
    /\ domQuestions' = [i \in 1..Len(domQuestions) |->
                            GradeQuestion(domQuestions[i], quizData.questions[i], i)]
    /\ submitHidden' = TRUE
    /\ UNCHANGED <<quizData, userAnswers>>

\* ---------------------------------------------------------------- Init
\* The popup document as loaded: no section shown, nothing disabled.
InitialDom ==
    /\ domQuestions = <<>>
    /\ submitHidden = FALSE
    /\ visible = [p \in Panels |-> FALSE]
    /\ results = FALSE
    /\ loading = FALSE
    /\ errorVisible = FALSE
    /\ successVisible = FALSE
    /\ chatMessages = <<>>
    /\ chatInputDisabled = FALSE
    /\ sendBtnDisabled = FALSE
    /\ actionBtnsDisabled = FALSE

\* constructor(), up to the first await of loadVideoInfo
Constructed ==
    /\ loadPc = "awaitTab"
    /\ currentVideo = Null
    /\ quizData = NoQuiz
    /\ userAnswers = EmptyAnswers
    /\ errTimers = 0
    /\ succTimers = 0
    /\ inflight = EmptyBag
    /\ chatReqs = {}
    /\ lastEvent = <<"constructor", "done">>
    /\ InitialDom

\* The popup as opened; no helper method is evaluated on its own.
Init == Constructed /\ arg = NoArg /\ ret = NoRet

\* ---------------------------------------------------------------- startup
\* loadVideoInfo(), after chrome.tabs.query settles with a tab of kind tab
LoadVideoInfo(tab) ==
    /\ loadPc = "awaitTab"
    /\ TimerRoom
    /\ loadPc' = "done"
    /\ lastEvent' = <<"loadVideoInfo", tab>>
    /\ IF tab = "queryThrows" \/ tab = "noTab"
         THEN showError /\ UNCHANGED <<currentVideo, actionBtnsDisabled>>
         ELSE IF ~isYouTubeVideoPage(TabUrl(tab))
           THEN showError /\ actionBtnsDisabled' = TRUE /\ UNCHANGED currentVideo
           ELSE IF extractVideoInfo(TabUrl(tab)) = Null
             THEN showError /\ UNCHANGED <<currentVideo, actionBtnsDisabled>>
             ELSE /\ currentVideo' = extractVideoInfo(TabUrl(tab))
                  /\ showSuccess
                  /\ UNCHANGED actionBtnsDisabled
    /\ UNCHANGED <<pureVars, quizVars, panelVars, loading, inflight, chatVars>>

\* ---------------------------------------------------------------- input
\* The buttons covered by showLoading's .controls container and by
\* disableControls' .action-btn selector.
InControls(btn) == btn \in MainBtns \cup {"submitQuizBtn"}

\* Buttons that also take no click while a /chat request is pending
ClickableUnlessChatPending(btn, dev) ==
    /\ ~actionBtnsDisabled
    /\ chatReqs = {}
    /\ dev = "pointer" => ~(loading /\ InControls(btn))

\* A click event reaches the listener of button btn: the button is not
\* disabled, and a pointer click needs pointer events on its container
\* (keyboard activation of the focused button does not).
Clickable(btn, dev) ==
    /\ ~actionBtnsDisabled
    /\ dev = "pointer" => ~(loading /\ InControls(btn))

\* Controls that take input whether or not their section is shown
SectionShownAlways(p) == TRUE

\* The section that holds a control; a hidden section takes no input.
SectionShown(p) == results /\ visible[p]


\* ---------------------------------------------------------------- main operations
\* makeApiCall(endpoint, data) up to `await fetch`: the request leaves.
\* sent is the user_answers mapping serialised into the body.
issue(endpoint, sent) ==
    inflight' = inflight (+) SetToBag({[endpoint |-> endpoint, sent |-> sent]})

\* generateQuiz(), up to the await
GenerateQuiz(dev) ==
    /\ Clickable("generateQuizBtn", dev)
    /\ IF currentVideo = Null
         THEN /\ TimerRoom
              /\ showError
              /\ lastEvent' = <<"generateQuiz", "noVideo">>
              /\ UNCHANGED <<loading, inflight>>
         ELSE /\ BagCardinality(inflight) < MaxInFlight
              /\ showLoading(TRUE)
              /\ issue("/generate-quiz", EmptyAnswers)
              /\ lastEvent' = <<"generateQuiz", "started">>
              /\ UNCHANGED noteVars
    /\ UNCHANGED <<pureVars, videoVars, quizVars, panelVars, chatVars>>

\* generateSummary(), up to the await
GenerateSummary(dev) ==
    /\ Clickable("generateSummaryBtn", dev)
    /\ IF currentVideo = Null
         THEN /\ TimerRoom
              /\ showError
              /\ lastEvent' = <<"generateSummary", "noVideo">>
              /\ UNCHANGED <<loading, inflight>>
         ELSE /\ BagCardinality(inflight) < MaxInFlight
              /\ showLoading(TRUE)
              /\ issue("/generate-summary", EmptyAnswers)
              /\ lastEvent' = <<"generateSummary", "started">>
              /\ UNCHANGED noteVars
    /\ UNCHANGED <<pureVars, videoVars, quizVars, panelVars, chatVars>>

\* extractTopics(), up to the await
ExtractTopics(dev) ==
    /\ Clickable("extractTopicsBtn", dev)
    /\ IF currentVideo = Null
         THEN /\ TimerRoom
              /\ showError
              /\ lastEvent' = <<"extractTopics", "noVideo">>
              /\ UNCHANGED <<loading, inflight>>
         ELSE /\ BagCardinality(inflight) < MaxInFlight
              /\ showLoading(TRUE)
              /\ issue("/generate-topics", EmptyAnswers)
              /\ lastEvent' = <<"extractTopics", "started">>
              /\ UNCHANGED noteVars
    /\ UNCHANGED <<pureVars, videoVars, quizVars, panelVars, chatVars>>

\* A validation that only looks for a quiz
submitRejectedNoQuizOnly == quizData = NoQuiz

\* The validation at the head of submitQuiz()
submitRejected == quizData = NoQuiz \/ DOMAIN userAnswers = {}

\* submitQuiz(), up to the await.  Reading this.currentVideo.videoId inside
\* the try throws when there is no video: catch and finally run at once.
SubmitQuiz(dev) ==
    /\ SectionShown("quiz")
    /\ ~submitHidden
    /\ Clickable("submitQuizBtn", dev)
    /\ IF submitRejected
         THEN /\ TimerRoom
              /\ showError
              /\ lastEvent' = <<"submitQuiz", "rejected">>
              /\ UNCHANGED <<loading, inflight>>
         ELSE IF currentVideo = Null
           THEN /\ TimerRoom
                /\ showError
                /\ showLoading(FALSE)
                /\ lastEvent' = <<"submitQuiz", "fault">>
                /\ UNCHANGED inflight
           ELSE /\ BagCardinality(inflight) < MaxInFlight
                /\ showLoading(TRUE)
                /\ issue("/verify-answers", userAnswers)
                /\ lastEvent' = <<"submitQuiz", "started">>
                /\ UNCHANGED noteVars
    /\ UNCHANGED <<pureVars, videoVars, quizVars, panelVars, chatVars>>

\* generateQuiz() after the await, with showLoading(false) at the end of the
\* try body and of the catch block instead of in finally: a fault in
\* displayQuiz is caught and reported, the flag stays set.
QuizResponseNoFinally(req, outcome, body) ==
    /\ req.endpoint = "/generate-quiz"
    /\ IF outcome = "ok"
         THEN /\ quizData' = Quiz(body)
              /\ displayQuiz(body)
              /\ showSuccess
              /\ showLoading(FALSE)
              /\ UNCHANGED submitHidden
              /\ lastEvent' = <<"/generate-quiz", "ok">>
         ELSE IF outcome = "malformed"
           THEN /\ quizData' = Malformed
                /\ displayQuizThrows
                /\ showError
                /\ UNCHANGED <<submitHidden, loading>>
                /\ lastEvent' = <<"/generate-quiz", "fault">>
           ELSE /\ showError
                /\ showLoading(FALSE)
                /\ UNCHANGED <<quizVars, panelVars>>
                /\ lastEvent' = <<"/generate-quiz", "failed">>

\* generateQuiz() after the await: try body, catch, finally
QuizResponse(req, outcome, body) ==
    /\ req.endpoint = "/generate-quiz"
    /\ IF outcome = "ok"
         THEN /\ quizData' = Quiz(body)
              /\ displayQuiz(body)
              /\ showSuccess
              /\ UNCHANGED submitHidden
              /\ lastEvent' = <<"/generate-quiz", "ok">>
         ELSE IF outcome = "malformed"
           THEN /\ quizData' = Malformed
                /\ displayQuizThrows
                /\ showError
                /\ UNCHANGED submitHidden
                /\ lastEvent' = <<"/generate-quiz", "fault">>
           ELSE /\ showError
                /\ UNCHANGED <<quizVars, panelVars>>
                /\ lastEvent' = <<"/generate-quiz", "failed">>
    /\ showLoading(FALSE)

\* displaySummary(summary)
displaySummary ==
    /\ results' = TRUE
    /\ visible' = showSummarySection

\* generateSummary() after the await
SummaryResponse(req, outcome) ==
    /\ req.endpoint = "/generate-summary"
    /\ IF outcome = "ok"
         THEN /\ displaySummary
              /\ showSuccess
              /\ lastEvent' = <<"/generate-summary", "ok">>
         ELSE /\ showError
              /\ UNCHANGED panelVars
              /\ lastEvent' = <<"/generate-summary",
                                IF outcome = "malformed" THEN "fault" ELSE "failed">>
    /\ showLoading(FALSE)
    /\ UNCHANGED quizVars

\* displayTopics(topics)
displayTopics ==
    /\ results' = TRUE
    /\ visible' = showTopicsSection

\* extractTopics() after the await
TopicsResponse(req, outcome) ==
    /\ req.endpoint = "/generate-topics"
    /\ IF outcome = "ok"
         THEN /\ displayTopics
              /\ showSuccess
              /\ lastEvent' = <<"/generate-topics", "ok">>
         ELSE /\ showError
              /\ UNCHANGED panelVars
              /\ lastEvent' = <<"/generate-topics",
                                IF outcome = "malformed" THEN "fault" ELSE "failed">>
    /\ showLoading(FALSE)
    /\ UNCHANGED quizVars

\* submitQuiz() after the await with a catch block that also discards the
\* stored answers
VerifyResponseClearsAnswers(req, outcome) ==
    /\ req.endpoint = "/verify-answers"
    /\ IF outcome \in {"ok", "malformed"}
         THEN IF displayQuizResultsThrows
                THEN /\ showError
                     /\ UNCHANGED quizVars
                     /\ lastEvent' = <<"/verify-answers", "fault">>
                ELSE /\ displayQuizResults
                     /\ showSuccess
                     /\ lastEvent' = <<"/verify-answers", "ok">>
         ELSE /\ showError
              /\ userAnswers' = EmptyAnswers
              /\ UNCHANGED <<quizData, domQuestions, submitHidden>>
              /\ lastEvent' = <<"/verify-answers", "failed">>
    /\ showLoading(FALSE)
    /\ UNCHANGED panelVars

\* submitQuiz() after the await.  The response body is not read, so any
\* JSON body of a 2xx response counts as success.
VerifyResponse(req, outcome) ==
    /\ req.endpoint = "/verify-answers"
    /\ IF outcome \in {"ok", "malformed"}
         THEN IF displayQuizResultsThrows
                THEN /\ showError
                     /\ UNCHANGED quizVars
                     /\ lastEvent' = <<"/verify-answers", "fault">>
                ELSE /\ displayQuizResults
                     /\ showSuccess
                     /\ lastEvent' = <<"/verify-answers", "ok">>
         ELSE /\ showError
              /\ UNCHANGED quizVars
              /\ lastEvent' = <<"/verify-answers", "failed">>
    /\ showLoading(FALSE)
    /\ UNCHANGED panelVars

\* The bodies a response to endpoint can carry with the given outcome; only
\* the body of a generated quiz is read beyond its presence.
NoBody == <<>>
BodiesFor(endpoint, outcome) ==
    IF endpoint = "/generate-quiz" /\ outcome = "ok" THEN Quizzes ELSE {NoBody}

\* The response (or failure) of the main request req arrives.
Respond(req, outcome, body) ==
    /\ req \in BagToSet(inflight)
    /\ TimerRoom
    /\ inflight' = inflight (-) SetToBag({req})
    /\ \/ QuizResponse(req, outcome, body)
       \/ SummaryResponse(req, outcome)
       \/ TopicsResponse(req, outcome)
       \/ VerifyResponse(req, outcome)
    /\ UNCHANGED <<pureVars, videoVars, chatVars>>

\* ---------------------------------------------------------------- answers
\* An option listener that marks the clicked option without unmarking the
\* others
SelectAnswerKeepsMarks(q, o) ==
    /\ SectionShown("quiz")
    /\ q \in 1..Len(domQuestions)
    /\ o \notin domQuestions[q].inert
    /\ domQuestions' = [domQuestions EXCEPT ![q].selected = @ \cup {o}]
    /\ userAnswers' = [k \in DOMAIN userAnswers \cup {q} |->
                          IF k = q THEN o ELSE userAnswers[k]]
    /\ lastEvent' = <<"selectAnswer", "done">>
    /\ UNCHANGED <<pureVars, videoVars, quizData, submitHidden, panelVars, loading, noteVars,
                   inflight, chatVars>>

\* click listener of option o of question q (displayQuiz, lines 249-258)
SelectAnswer(q, o) ==
    /\ SectionShown("quiz")
    /\ q \in 1..Len(domQuestions)
    /\ o \notin domQuestions[q].inert
    /\ domQuestions' = [domQuestions EXCEPT ![q].selected = {o}]
    /\ userAnswers' = [k \in DOMAIN userAnswers \cup {q} |->
                          IF k = q THEN o ELSE userAnswers[k]]
    /\ lastEvent' = <<"selectAnswer", "done">>
    /\ UNCHANGED <<pureVars, videoVars, quizData, submitHidden, panelVars, loading, noteVars,
                   inflight, chatVars>>


\* ---------------------------------------------------------------- chat
\* startChat that leaves #chatMessages as it is
StartChatKeepsTranscript(dev) ==
    /\ Clickable("startChatBtn", dev)
    /\ TimerRoom
    /\ IF currentVideo = Null
         THEN /\ showError
              /\ lastEvent' = <<"startChat", "noVideo">>
              /\ UNCHANGED <<panelVars, chatMessages>>
         ELSE /\ results' = TRUE
              /\ visible' = showChatSection
              /\ UNCHANGED chatMessages
              /\ showSuccess
              /\ lastEvent' = <<"startChat", "ok">>
    /\ UNCHANGED <<pureVars, videoVars, quizVars, loading, inflight, chatInputDisabled,
                   sendBtnDisabled, chatReqs>>

\* startChat()
StartChat(dev) ==
    /\ Clickable("startChatBtn", dev)
    /\ TimerRoom
    /\ IF currentVideo = Null
         THEN /\ showError
              /\ lastEvent' = <<"startChat", "noVideo">>
              /\ UNCHANGED <<panelVars, chatMessages>>
         ELSE /\ results' = TRUE
              /\ visible' = showChatSection
              /\ chatMessages' = <<>>
              /\ showSuccess
              /\ lastEvent' = <<"startChat", "ok">>
    /\ UNCHANGED <<pureVars, videoVars, quizVars, loading, inflight, chatInputDisabled,
                   sendBtnDisabled, chatReqs>>

\* A chat message element.  owner is the /chat request whose continuation
\* holds the element as botMessageDiv (0: none).
Message(sender, text, owner) == [sender |-> sender, text |-> text, owner |-> owner]

\* addChatMessage that appends nothing
addChatMessageDropped(msgs, message, sender) == msgs

\* addChatMessage(message, sender)
addChatMessage(msgs, message, sender) == Append(msgs, Message(sender, message, 0))

\* The identity given to the next /chat request.
FreshId == CHOOSE id \in 1..MaxChatReqs : \A r \in chatReqs : r.id # id

\* sendChatMessage reachable while the controls are disabled
SendEnabledWhileDisabled(source) == SectionShown("chat")

\* The event that calls sendChatMessage is delivered: a click on
\* #sendChatBtn or Enter in #chatInput; a disabled control takes neither.
SendEnabled(source) ==
    /\ SectionShown("chat")
    /\ source = "sendChatBtn" => ~sendBtnDisabled
    /\ source = "chatInput" => ~chatInputDisabled

\* sendChatMessage(), up to the await; text is chatInput.value.trim()
SendChatMessage(source, text) ==
    /\ SendEnabled(source)
    /\ IF text = ""
         THEN /\ lastEvent' = <<"sendChatMessage", "empty">>
              /\ UNCHANGED chatVars
         ELSE /\ Len(chatMessages) < 2 * MaxPairs
              /\ Cardinality(chatReqs) < MaxChatReqs
              /\ IF currentVideo = Null
                   THEN /\ chatMessages' = Append(addChatMessage(chatMessages, text, "user"),
                                                  Message("bot", ErrorText, 0))
                        /\ chatInputDisabled' = FALSE
                        /\ sendBtnDisabled' = FALSE
                        /\ lastEvent' = <<"sendChatMessage", "fault">>
                        /\ UNCHANGED chatReqs
                   ELSE /\ chatMessages' = Append(addChatMessage(chatMessages, text, "user"),
                                                  Message("bot", Placeholder, FreshId))
                        /\ chatInputDisabled' = TRUE
                        /\ sendBtnDisabled' = TRUE
                        /\ chatReqs' = chatReqs \cup {[id |-> FreshId, question |-> text]}
                        /\ lastEvent' = <<"sendChatMessage", "started">>
    /\ UNCHANGED <<pureVars, videoVars, quizVars, panelVars, loading, noteVars, inflight>>

\* A completion that appends the reply as a new message
setBotTextAppends(msgs, id, text) == Append(msgs, Message("bot", text, 0))

\* botMessageDiv.textContent = text, for the element held by request id
\* (an element removed by startChat is no longer among the children)
setBotText(msgs, id, text) ==
    [k \in 1..Len(msgs) |->
        IF msgs[k].owner = id THEN Message("bot", text, 0) ELSE msgs[k]]

\* sendChatMessage() after the await, re-enabling the controls at the end of
\* the try body only
ChatResponseNoFinally(req, outcome, answer) ==
    /\ req \in chatReqs
    /\ chatReqs' = chatReqs \ {req}
    /\ chatMessages' = setBotText(chatMessages, req.id,
                                  IF outcome = "ok" THEN answer ELSE ErrorText)
    /\ chatInputDisabled' = (IF outcome = "ok" THEN FALSE ELSE chatInputDisabled)
    /\ sendBtnDisabled' = (IF outcome = "ok" THEN FALSE ELSE sendBtnDisabled)
    /\ lastEvent' = <<"/chat", IF outcome = "ok" THEN "ok" ELSE "failed">>
    /\ UNCHANGED <<pureVars, videoVars, quizVars, panelVars, loading, noteVars, inflight>>

\* sendChatMessage() after the await: try body, catch, finally
ChatResponse(req, outcome, answer) ==
    /\ req \in chatReqs
    /\ chatReqs' = chatReqs \ {req}
    /\ chatMessages' = setBotText(chatMessages, req.id,
                                  IF outcome = "ok" THEN answer ELSE ErrorText)
    /\ chatInputDisabled' = FALSE
    /\ sendBtnDisabled' = FALSE
    /\ lastEvent' = <<"/chat", IF outcome = "ok" THEN "ok" ELSE "failed">>
    /\ UNCHANGED <<pureVars, videoVars, quizVars, panelVars, loading, noteVars, inflight>>

\* ---------------------------------------------------------------- timers
\* setTimeout callback of showError
ErrorTimerFires ==
    /\ errTimers > 0
    /\ errTimers' = errTimers - 1
    /\ errorVisible' = FALSE
    /\ UNCHANGED <<pureVars, videoVars, quizVars, panelVars, loading, successVisible, succTimers,
                   inflight, chatVars, lastEvent>>

\* setTimeout callback of showSuccess
SuccessTimerFires ==
    /\ succTimers > 0
    /\ succTimers' = succTimers - 1
    /\ successVisible' = FALSE
    /\ UNCHANGED <<pureVars, videoVars, quizVars, panelVars, loading, errorVisible, errTimers,
                   inflight, chatVars, lastEvent>>

\* ---------------------------------------------------------------- specification
\* Every handler and continuation, inputs unrestricted.  The quiz, chat and
\* notification parts multiply to a state space beyond exhaustive search,
\* so the properties are checked under the specifications that follow, each
\* built from the same actions for a part of the user's and the backend's
\* behaviour.
Next ==
    \/ \E tab \in TabKinds : LoadVideoInfo(tab)
    \/ \E dev \in Devices : GenerateQuiz(dev)
    \/ \E dev \in Devices : GenerateSummary(dev)
    \/ \E dev \in Devices : ExtractTopics(dev)
    \/ \E dev \in Devices : SubmitQuiz(dev)
    \/ \E dev \in Devices : StartChat(dev)
    \/ \E req \in BagToSet(inflight), outcome \in Outcomes :
          \E body \in BodiesFor(req.endpoint, outcome) : Respond(req, outcome, body)
    \/ \E q \in 1..MaxQuestions, o \in Opts : SelectAnswer(q, o)
    \/ \E source \in {"sendChatBtn", "chatInput"}, text \in ChatTexts \cup {""} :
          SendChatMessage(source, text)
    \/ \E req \in chatReqs, outcome \in {"ok", "failed"}, answer \in Answers :
          ChatResponse(req, outcome, answer)
    \/ ErrorTimerFires
    \/ SuccessTimerFires

Spec == Init /\ [][Next]_vars

\* The notification state is written by the handlers and read by none of
\* them.  The quiz and the main specification let a handler run only once
\* the pending auto-hide timers have fired; the chat specification leaves
\* the timers free to fire at any time.
Quiet == PendingTimers = 0

\* Quiz session: quiz generation, answer selection, submission and grading,
\* with the summary as the competing main operation.
NextQuiz ==
    \/ \E tab \in TabKinds : Quiet /\ LoadVideoInfo(tab)
    \/ \E dev \in Devices : Quiet /\ GenerateQuiz(dev)
    \/ \E dev \in Devices : Quiet /\ GenerateSummary(dev)
    \/ \E dev \in Devices : Quiet /\ SubmitQuiz(dev)
    \/ \E req \in BagToSet(inflight), outcome \in Outcomes :
          \E body \in BodiesFor(req.endpoint, outcome) :
             Quiet /\ Respond(req, outcome, body)
    \/ \E q \in 1..MaxQuestions, o \in Opts : Quiet /\ SelectAnswer(q, o)
    \/ ErrorTimerFires
    \/ SuccessTimerFires

SpecQuiz == Init /\ [][NextQuiz]_vars

\* Chat session: start, send and reply, with the summary as a main
\* operation running beside it.
NextChat ==
    \/ \E tab \in TabKinds : LoadVideoInfo(tab)
    \/ \E dev \in Devices : StartChat(dev)
    \/ \E dev \in Devices : GenerateSummary(dev)
    \/ \E req \in BagToSet(inflight), outcome \in Outcomes :
          \E body \in BodiesFor(req.endpoint, outcome) : Respond(req, outcome, body)
    \/ \E source \in {"sendChatBtn", "chatInput"}, text \in ChatTexts \cup {""} :
          SendChatMessage(source, text)
    \/ \E req \in chatReqs, outcome \in {"ok", "failed"}, answer \in Answers :
          ChatResponse(req, outcome, answer)
    \/ ErrorTimerFires
    \/ SuccessTimerFires

SpecChat == Init /\ [][NextChat]_vars

\* One-question quiz bodies, for the specification in which the content of
\* the quiz does not matter.
ShortQuizzes == [1..1 -> Opts]

\* The main operations and the panels: all five buttons and startChat.
NextMain ==
    \/ \E tab \in TabKinds : Quiet /\ LoadVideoInfo(tab)
    \/ \E dev \in Devices : Quiet /\ GenerateQuiz(dev)
    \/ \E dev \in Devices : Quiet /\ GenerateSummary(dev)
    \/ \E dev \in Devices : Quiet /\ ExtractTopics(dev)
    \/ \E dev \in Devices : Quiet /\ SubmitQuiz(dev)
    \/ \E dev \in Devices : Quiet /\ StartChat(dev)
    \/ \E req \in BagToSet(inflight), outcome \in Outcomes :
          \E body \in BodiesFor(req.endpoint, outcome) \cap (ShortQuizzes \cup {NoBody}) :
             Quiet /\ Respond(req, outcome, body)
    \/ \E o \in Opts : Quiet /\ SelectAnswer(1, o)
    \/ ErrorTimerFires
    \/ SuccessTimerFires

SpecMain == Init /\ [][NextMain]_vars

\* Every issued request is eventually answered or fails, and every timer
\* eventually fires.  A response is handled whenever it arrives; strong
\* fairness carries it past the states where this specification holds the
\* continuation back for a pending timer.
RespondMain ==
    \E req \in BagToSet(inflight), outcome \in Outcomes :
       \E body \in BodiesFor(req.endpoint, outcome) \cap (ShortQuizzes \cup {NoBody}) :
          Quiet /\ Respond(req, outcome, body)

FairMain ==
    /\ SpecMain
    /\ SF_vars(RespondMain)
    /\ WF_vars(ErrorTimerFires)
    /\ WF_vars(SuccessTimerFires)

RespondChat ==
    \E req \in chatReqs, outcome \in {"ok", "failed"}, answer \in Answers :
       ChatResponse(req, outcome, answer)

FairChat == SpecChat /\ WF_vars(RespondChat)

\* The whole popup used with the mouse: every button, the quiz options and
\* the chat, one-question quizzes, one chat text.
NextSession ==
    \/ \E tab \in TabKinds : Quiet /\ LoadVideoInfo(tab)
    \/ Quiet /\ GenerateQuiz("pointer")
    \/ Quiet /\ GenerateSummary("pointer")
    \/ Quiet /\ ExtractTopics("pointer")
    \/ Quiet /\ SubmitQuiz("pointer")
    \/ Quiet /\ StartChat("pointer")
    \/ \E req \in BagToSet(inflight), outcome \in Outcomes :
          \E body \in BodiesFor(req.endpoint, outcome) \cap (ShortQuizzes \cup {NoBody}) :
             Quiet /\ Respond(req, outcome, body)
    \/ \E o \in Opts : Quiet /\ SelectAnswer(1, o)
    \/ \E source \in {"sendChatBtn", "chatInput"} : Quiet /\ SendChatMessage(source, "q1")
    \/ \E req \in chatReqs, outcome \in {"ok", "failed"}, answer \in Answers :
          Quiet /\ ChatResponse(req, outcome, answer)
    \/ ErrorTimerFires
    \/ SuccessTimerFires

SpecSession == Init /\ [][NextSession]_vars

\* ---------------------------------------------------------------- helper methods
\* isYouTubeVideoPage evaluated on a URL of the domain
InitUrl == Constructed /\ arg \in Urls /\ ret = NoRet

IsYouTubeVideoPage ==
    /\ ret = NoRet
    /\ ret' = <<isYouTubeVideoPage(arg)>>
    /\ UNCHANGED <<arg, videoVars, quizVars, panelVars, loading, noteVars, inflight,
                   chatVars, lastEvent>>

SpecUrl == InitUrl /\ [][IsYouTubeVideoPage]_vars

\* The title clean-up of extractVideoInfo evaluated on a title of the domain
InitTitle == Constructed /\ arg \in Titles /\ ret = NoRet

CleanTitle ==
    /\ ret = NoRet
    /\ ret' = <<cleanTitle(arg)>>
    /\ UNCHANGED <<arg, videoVars, quizVars, panelVars, loading, noteVars, inflight,
                   chatVars, lastEvent>>

SpecTitle == InitTitle /\ [][CleanTitle]_vars

\* ---------------------------------------------------------------- properties
ShownPanels == {p \in Panels : visible[p]}

\* C1: at most one of the four panels is visible in every state, and right
\* after a successful generate-quiz, generate-summary, generate-topics or
\* start-chat exactly the panel of that operation is visible.
PanelExclusive ==
    /\ Cardinality(ShownPanels) <= 1
    /\ lastEvent = <<"/generate-quiz", "ok">> => results /\ ShownPanels = {"quiz"}
    /\ lastEvent = <<"/generate-summary", "ok">> => results /\ ShownPanels = {"summary"}
    /\ lastEvent = <<"/generate-topics", "ok">> => results /\ ShownPanels = {"topics"}
    /\ lastEvent = <<"startChat", "ok">> => results /\ ShownPanels = {"chat"}

\* C1 witness: the chat panel has replaced a quiz panel shown earlier.
PanelSwitched ==
    /\ lastEvent = <<"startChat", "ok">>
    /\ quizData.kind = "quiz"
    /\ visible.chat

\* C2: at most one /chat request is in flight, and while one is in flight no
\* step adds a request or lengthens the transcript.
SinglePendingChat ==
    /\ [](Cardinality(chatReqs) <= 1)
    /\ [][chatReqs # {} => /\ chatReqs' \subseteq chatReqs
                           /\ Len(chatMessages') <= Len(chatMessages)]_vars

\* C2 witness: a request is pending after an earlier send has completed.
SecondSendPending ==
    /\ Cardinality(chatReqs) = 1
    /\ Len(chatMessages) = 4
    /\ chatInputDisabled
    /\ sendBtnDisabled

\* C3: the transcript is a sequence of (user, bot) pairs; a bot element still
\* held by a request follows the user message carrying that request's text.
TranscriptPaired ==
    /\ Len(chatMessages) % 2 = 0
    /\ \A k \in 1..Len(chatMessages) :
          /\ chatMessages[k].sender = (IF k % 2 = 1 THEN "user" ELSE "bot")
          /\ k % 2 = 1 => chatMessages[k].text \in ChatTexts /\ chatMessages[k].owner = 0
          /\ k % 2 = 0 =>
                \/ chatMessages[k].owner = 0
                      /\ chatMessages[k].text \in Answers \cup {ErrorText}
                \/ /\ chatMessages[k].text = Placeholder
                   /\ \E r \in chatReqs : /\ r.id = chatMessages[k].owner
                                          /\ r.question = chatMessages[k - 1].text

\* C3 witness: an answered pair followed by a pair awaiting its reply.
TwoPairs ==
    /\ Len(chatMessages) = 4
    /\ chatMessages[2].text \in Answers
    /\ chatMessages[4].owner # 0

\* A question element whose options displayQuizResults has gone over.
GradedAt(i) == domQuestions[i].inert = Opts

\* C4: in a graded quiz, for every question with correct index c and stored
\* selection u (possibly absent), exactly option c is marked correct, exactly
\* option u is marked incorrect when u is present and differs from c, and no
\* option carries both marks.
GradingRule ==
    \A i \in 1..Len(domQuestions) :
        GradedAt(i) =>
            /\ quizData.kind = "quiz"
            /\ Len(quizData.questions) = Len(domQuestions)
            /\ domQuestions[i].correct = {quizData.questions[i]}
            /\ domQuestions[i].incorrect =
                  (IF i \in DOMAIN userAnswers /\ userAnswers[i] # quizData.questions[i]
                     THEN {userAnswers[i]} ELSE {})
            /\ domQuestions[i].correct \cap domQuestions[i].incorrect = {}

\* C4 witness: a quiz just graded with a wrong answer, a right answer or an
\* unanswered question among its questions.
GradedMixed ==
    /\ lastEvent = <<"/verify-answers", "ok">>
    /\ Len(domQuestions) = 2
    /\ domQuestions[1].incorrect # {}
    /\ 2 \notin DOMAIN userAnswers
    /\ domQuestions[2].correct # {}

\* C5: a submitQuiz step taken with no quiz or with no stored answer shows the
\* error notification, issues no request, leaves the loading flag alone and
\* changes neither the quiz data, the answers nor the rendered quiz.
EmptySubmitRejected ==
    [][((\E dev \in Devices : SubmitQuiz(dev))
          /\ (quizData = NoQuiz \/ DOMAIN userAnswers = {}))
       => /\ errorVisible'
          /\ inflight' = inflight
          /\ loading' = loading
          /\ UNCHANGED <<quizData, userAnswers, domQuestions, submitHidden>>]_vars

\* C5 witness: submitQuiz has just been rejected for a displayed quiz
\* without answers.
SubmitWasRejected ==
    /\ lastEvent = <<"submitQuiz", "rejected">>
    /\ quizData.kind = "quiz"
    /\ DOMAIN userAnswers = {}
    /\ errorVisible
    /\ inflight = EmptyBag

\* The displayed quiz shows its results: every question has its correct mark.
Graded == Len(domQuestions) > 0 /\ \A i \in 1..Len(domQuestions) : domQuestions[i].correct # {}

\* The step has rendered a new quiz (or emptied the quiz content).
QuizReplaced ==
    /\ lastEvent' # lastEvent
    /\ lastEvent'[1] = "/generate-quiz"
    /\ lastEvent'[2] \in {"ok", "fault"}

\* C6: once the displayed quiz is graded, no step changes userAnswers or the
\* selected / correct / incorrect marks, until a new quiz replaces it.
GradedIsTerminal ==
    [][Graded => (UNCHANGED <<userAnswers, domQuestions>> \/ QuizReplaced)]_vars

\* C6 witness: the graded quiz is on display and a later operation has run.
GradedThenMore ==
    /\ Graded
    /\ SectionShown("quiz")
    /\ lastEvent = <<"/generate-summary", "failed">>

\* C7: at most one request among /generate-quiz, /generate-summary,
\* /generate-topics and /verify-answers is in flight.
MainSerialized == BagCardinality(inflight) <= 1

\* C8: the error and the success notification are never both visible.
NeverBothVisible == ~(errorVisible /\ successVisible)

\* C8 witness: a success notification raised while the timer of an earlier
\* error notification is still pending, and hidden again by a later error.
SuccessOverError ==
    /\ errorVisible
    /\ ~successVisible
    /\ succTimers > 0
    /\ errTimers > 0

\* C9: the continuation of every main request, whatever its outcome, leaves
\* the loading flag cleared, and a set loading flag is eventually cleared.
LoadingCleared ==
    /\ [][RespondMain => ~loading']_vars
    /\ loading ~> ~loading

\* C9 witness: a fault while handling a response, with the flag cleared.
FaultCleared ==
    /\ lastEvent = <<"/generate-quiz", "fault">>
    /\ ~loading
    /\ inflight = EmptyBag

\* C10: the chat controls are disabled only while a /chat request is in
\* flight, and disabled controls are eventually enabled again.
ChatReenabled ==
    /\ []((chatInputDisabled \/ sendBtnDisabled) => chatReqs # {})
    /\ (chatInputDisabled /\ sendBtnDisabled) ~> (~chatInputDisabled /\ ~sendBtnDisabled)

\* C10 witness: a failed /chat request has left the controls enabled.
ChatFailedEnabled ==
    /\ lastEvent = <<"/chat", "failed">>
    /\ ~chatInputDisabled
    /\ ~sendBtnDisabled
    /\ chatReqs = {}
    /\ \E k \in 1..Len(chatMessages) : chatMessages[k].text = ErrorText

FailureLeavesState ==
    [][(\E req \in BagToSet(inflight), outcome \in {"httpError", "transport"} :
           Respond(req, outcome, NoBody))
       => /\ UNCHANGED <<quizData, userAnswers, domQuestions, submitHidden>>
          /\ UNCHANGED <<visible, results>>
          /\ UNCHANGED <<videoVars, chatVars>>
          /\ errorVisible'
          /\ ~loading']_vars

\* C12 witness: /verify-answers has just failed for a displayed quiz with a
\* stored answer; the quiz is still ungraded.
VerifyFailedKept ==
    /\ lastEvent = <<"/verify-answers", "failed">>
    /\ quizData.kind = "quiz"
    /\ DOMAIN userAnswers # {}
    /\ domQuestions[1].selected # {}
    /\ domQuestions[1].correct = {}
    /\ visible.quiz
    /\ errorVisible
    /\ ~loading

\* C13: once loadVideoInfo has completed without a video context, every
\* action button is disabled.
NoContextDisables ==
    (loadPc = "done" /\ currentVideo = Null) => actionBtnsDisabled

\* C14: right after a successful generateQuiz the returned questions are
\* stored, no answer is stored, every option is unmarked and clickable, the
\* submit button is available and the quiz panel is the visible one.
FreshQuizSession ==
    lastEvent = <<"/generate-quiz", "ok">> =>
        /\ quizData.kind = "quiz"
        /\ Len(domQuestions) = Len(quizData.questions)
        /\ userAnswers = EmptyAnswers
        /\ \A i \in 1..Len(domQuestions) : domQuestions[i] = FreshQuestion
        /\ ~submitHidden
        /\ results
        /\ ShownPanels = {"quiz"}

\* The step issues the /chat request r.
ChatSent(r) == r \notin chatReqs /\ r \in chatReqs'

\* The step completes the /chat request r.
ChatCompleted(r) == r \in chatReqs /\ r \notin chatReqs'

\* An accepted send appends the user message and an empty bot placeholder to
\* the transcript as it was.
SendAppendsPair ==
    \A r \in chatReqs' :
        ChatSent(r) =>
            chatMessages' = chatMessages \o
                <<Message("user", r.question, 0), Message("bot", Placeholder, r.id)>>

\* After the completion of r the transcript ends with r's question and a bot
\* message carrying the answer or an error text, everything before that pair
\* is as it was, and the transcript has kept its length.
CompletionFillsPair(r) ==
    LET n == Len(chatMessages') IN
        /\ n = Len(chatMessages)
        /\ n >= 2
        /\ SubSeq(chatMessages', 1, n - 2) = SubSeq(chatMessages, 1, n - 2)
        /\ chatMessages'[n - 1] = Message("user", r.question, 0)
        /\ chatMessages'[n].sender = "bot"
        /\ chatMessages'[n].text \in Answers \cup {ErrorText}

\* C15 as stated: every accepted send appends (user, t) and a placeholder,
\* and every completion leaves the transcript ending with (user, t), (bot, a).
ChatPairCompleted ==
    [][/\ SendAppendsPair
       /\ \A r \in chatReqs : ChatCompleted(r) => CompletionFillsPair(r)]_vars

\* The placeholder of request r is still a child of #chatMessages.
Attached(r) == \E k \in 1..Len(chatMessages) : chatMessages[k].owner = r.id

\* C15: every accepted send appends (user, t) and an empty placeholder; while
\* the request is pending the transcript is only changed by startChat, which
\* empties it; a completion whose placeholder is still in the transcript
\* leaves it ending with (user, t), (bot, a) and everything else as it was,
\* and a completion whose placeholder startChat has removed changes nothing.
ChatPairCompletedUnlessRestarted ==
    [][/\ SendAppendsPair
       /\ (chatReqs # {} /\ chatReqs' = chatReqs) =>
              (chatMessages' = chatMessages \/ chatMessages' = <<>>)
       /\ \A r \in chatReqs :
              ChatCompleted(r) =>
                  IF Attached(r) THEN CompletionFillsPair(r)
                                 ELSE chatMessages' = chatMessages]_vars

\* C15 witness: the second send of a conversation has been answered in place.
SecondPairAnswered ==
    /\ lastEvent = <<"/chat", "ok">>
    /\ Len(chatMessages) = 4
    /\ chatMessages[3].text \in ChatTexts
    /\ chatMessages[4] = Message("bot", "a1", 0)
    /\ chatReqs = {}

\* The correct and incorrect marks of the displayed quiz.
Marks(dom) == [i \in 1..Len(dom) |-> <<dom[i].correct, dom[i].incorrect>>]

\* The step is the successful completion of a /verify-answers request that
\* carried answers given to the displayed quiz (displayQuiz empties the
\* stored answers and only selections on the displayed quiz add to them).
VerifiedDisplayedQuiz ==
    \E req \in BagToSet(inflight) :
        /\ req.endpoint = "/verify-answers"
        /\ inflight' = inflight (-) SetToBag({req})
        /\ lastEvent' = <<"/verify-answers", "ok">>
        /\ DOMAIN req.sent \subseteq DOMAIN userAnswers

\* C16: a correct or incorrect mark appears on the displayed quiz only in the
\* step that completes a successful /verify-answers request made for that
\* quiz; no other step, a failed verification included, reveals a mark.
RevealNeedsVerify ==
    [][(\E i \in 1..Len(domQuestions') :
           domQuestions'[i].correct \cup domQuestions'[i].incorrect # {})
       /\ Marks(domQuestions') # Marks(domQuestions)
       => VerifiedDisplayedQuiz]_vars

\* C17: isYouTubeVideoPage returns true exactly for a URL that is present
\* and parses, whose host is www.youtube.com, whose path is /watch and whose
\* query string has a parameter named v.
ClassifiesVideoPages ==
    ret # NoRet =>
        (ret[1] <=> /\ arg # NoUrl
                    /\ arg.scheme # ""
                    /\ hostname(arg) = "www.youtube.com"
                    /\ arg.path = "/watch"
                    /\ \E i \in 1..Len(arg.query) : arg.query[i][1] = "v")

\* C17 witness: a URL that deviates in its path only was classified invalid.
PathDeviationInvalid ==
    /\ ret = <<FALSE>>
    /\ arg.scheme = "https"
    /\ arg.host = "www.youtube.com"
    /\ arg.path = "/watch/"
    /\ arg.query = << <<"v", "vid">> >>

\* C18: cleaning a cleaned title returns it unchanged, and a title that does
\* not end in the word YouTube is returned as it is.
StripIdempotent ==
    ret # NoRet =>
        /\ cleanTitle(ret[1]) = ret[1]
        /\ (Len(arg) = 0 \/ arg[Len(arg)] # "YouTube") => ret[1] = arg

\* C19: the stored answers map question indices of the current quiz to
\* option indices; a selection of option o of question q stores o for q,
\* shows exactly o selected in q, and leaves the stored answer and the
\* option classes of every other question as they were.
SelectionLocal ==
    /\ [](/\ DOMAIN userAnswers \subseteq 1..Len(quizData.questions)
          /\ \A q \in DOMAIN userAnswers : userAnswers[q] \in Opts)
    /\ [][\A q \in 1..MaxQuestions, o \in Opts :
             SelectAnswer(q, o) =>
                 /\ q \in DOMAIN userAnswers' /\ userAnswers'[q] = o
                 /\ domQuestions'[q].selected = {o}
                 /\ DOMAIN userAnswers' = DOMAIN userAnswers \cup {q}
                 /\ Len(domQuestions') = Len(domQuestions)
                 /\ \A k \in 1..Len(domQuestions) \ {q} :
                       /\ domQuestions'[k] = domQuestions[k]
                       /\ k \in DOMAIN userAnswers => userAnswers'[k] = userAnswers[k]]_vars

\* C19 witness: both questions of a quiz answered, the first one with its
\* last option, each showing exactly the stored option selected.
BothAnswered ==
    /\ lastEvent = <<"selectAnswer", "done">>
    /\ Len(domQuestions) = 2
    /\ DOMAIN userAnswers = {1, 2}
    /\ userAnswers[1] = NumOptions
    /\ \A q \in 1..2 : domQuestions[q].selected = {userAnswers[q]}
    /\ ~Graded

\* C20: a step that issues or completes a /chat request leaves the loading
\* flag and the main requests as they are; a step that issues or completes
\* a main request leaves the chat controls and the /chat requests as they
\* are; and while a /chat request is pending and the loading flag is clear,
\* each of generateQuiz, generateSummary, extractTopics and startChat can
\* start, and so can submitQuiz when its button is on display.
LocksIndependent ==
    /\ [][chatReqs' # chatReqs => loading' = loading /\ inflight' = inflight]_vars
    /\ [][(inflight' # inflight \/ loading' # loading) =>
             UNCHANGED <<chatInputDisabled, sendBtnDisabled, chatReqs>>]_vars
    /\ []((chatReqs # {} /\ ~loading /\ Quiet) =>
             /\ ENABLED GenerateQuiz("pointer")
             /\ ENABLED GenerateSummary("pointer")
             /\ ENABLED ExtractTopics("pointer")
             /\ ENABLED StartChat("pointer")
             /\ (SectionShown("quiz") /\ ~submitHidden) => ENABLED SubmitQuiz("pointer"))

\* C20 witness: a quiz was submitted while a /chat request is pending; the
\* loading flag and the chat controls are both set.
SubmitBesidePendingChat ==
    /\ lastEvent = <<"submitQuiz", "started">>
    /\ chatReqs # {}
    /\ chatInputDisabled
    /\ sendBtnDisabled
    /\ loading

\* The step runs a handler or continuation of the chat specification that
\* calls showError.
CallsShowError ==
    \/ \E tab \in TabKinds \ {"video"} : LoadVideoInfo(tab)
    \/ currentVideo = Null /\ \E dev \in Devices : StartChat(dev) \/ GenerateSummary(dev)
    \/ \E req \in BagToSet(inflight), outcome \in Outcomes \ {"ok"} :
          Respond(req, outcome, NoBody)

\* The step runs a handler or continuation of the chat specification that
\* calls showSuccess.
CallsShowSuccess ==
    \/ LoadVideoInfo("video")
    \/ currentVideo # Null /\ \E dev \in Devices : StartChat(dev)
    \/ \E req \in BagToSet(inflight) : Respond(req, "ok", NoBody)

\* C21: every showError and showSuccess call adds one pending timer of its
\* kind to those already pending; a pending timer leaves only by firing,
\* which hides the notification of its kind whichever call showed it; and a
\* pending timer can always fire.
TimersNeverCancelled ==
    /\ [][CallsShowError => errTimers' = errTimers + 1 /\ errorVisible']_vars
    /\ [][CallsShowSuccess => succTimers' = succTimers + 1 /\ successVisible']_vars
    /\ [][errTimers' < errTimers => errTimers' = errTimers - 1 /\ ~errorVisible']_vars
    /\ [][succTimers' < succTimers => succTimers' = succTimers - 1 /\ ~successVisible']_vars
    /\ [](errTimers > 0 => ENABLED ErrorTimerFires)
    /\ [](succTimers > 0 => ENABLED SuccessTimerFires)

\* C21 witness: the last handler showed an error notification while the
\* timer of an earlier one was pending; that timer has fired and hidden the
\* notification, and the timer of the last call is still pending.
NewerErrorHiddenEarly ==
    /\ lastEvent = <<"startChat", "noVideo">>
    /\ ~errorVisible
    /\ errTimers = 1
    /\ succTimers = 0

\* C22: when a /verify-answers request completes successfully and the quiz
\* is graded, the stored answers the marks are computed from are the answers
\* the request carried.
GradesSentAnswers ==
    [][\A req \in BagToSet(inflight) :
          (/\ req.endpoint = "/verify-answers"
           /\ inflight' = inflight (-) SetToBag({req})
           /\ lastEvent' = <<"/verify-answers", "ok">>)
          => userAnswers = req.sent]_vars

\* C23: startChat with a video leaves the transcript empty; while a /chat
\* request issued before the last startChat is pending the transcript stays
\* empty, and it is still empty after that request completes; and the
\* transcript grows only by the pair of a newly issued request.
RestartIsolates ==
    /\ [][(currentVideo # Null /\ \E dev \in Devices : StartChat(dev))
             => chatMessages' = <<>>]_vars
    /\ [](\A r \in chatReqs : ~Attached(r) => chatMessages = <<>>)
    /\ [][\A r \in chatReqs :
             (~Attached(r) /\ ChatCompleted(r)) => chatMessages' = <<>>]_vars
    /\ [][Len(chatMessages') > Len(chatMessages) =>
             \E r \in chatReqs' :
                 /\ ChatSent(r)
                 /\ chatMessages' = chatMessages \o
                       <<Message("user", r.question, 0),
                         Message("bot", Placeholder, r.id)>>]_vars

\* C23 witness: the reply to a request sent before a startChat has arrived
\* and the transcript of the restarted chat is empty.
ReplyAfterRestartDropped ==
    /\ lastEvent = <<"/chat", "ok">>
    /\ chatMessages = <<>>
    /\ chatReqs = {}
    /\ visible.chat

====
